---- MODULE Spec2Model ----
(***************************************************************************)
(* On-call schedule generation, validation and shift swapping of the       *)
(* hirethon_template project (assign_task, member_dashboard apps).         *)
(*                                                                         *)
(* Time is counted in hours since 00:00 of day 0; day 0 is a Monday.  A    *)
(* date is a day number, a datetime an hour number.                        *)
(***************************************************************************)
EXTENDS Integers, Sequences, FiniteSets, TLC

VARIABLES
    members,      \* TeamMembers rows per team, newest first (ordering -joined_at)
    schedules,    \* Schedule table: id -> row
    timeslots,    \* Timeslot table: id -> row
    validations,  \* ScheduleValidation table: schedule id -> row
    swaps,        \* SwapRequest table: id -> row
    weekly_hours, \* MemberWeeklyHours table: <<member, team, week_start_date>> -> row
    nextId,       \* auto-increment primary keys of the three tables
    now,          \* timezone.now(), in hours
    queue,        \* celery queue of delayed tasks
    workers,      \* local state of the handlers that run step by step
    resp          \* outcome of the last call

vars == <<members, schedules, timeslots, validations, swaps, weekly_hours,
          nextId, now, queue, workers, resp>>

----------------------------------------------------------------------------
(* Program constants *)

HoursPerDay == 24
DaysPerWeek == 7
MAX_DAILY_HOURS == 8
MAX_WEEKLY_HOURS == 40
MinTeamSize == 5
DeadlineHours == 24
OverageHours == 8
min_break_hours == 12
NoMember == 0
NoTime == -1

WeekHours == DaysPerWeek * HoursPerDay

(* Bounds of the model *)

MaxMembers == 6          \* users 1..MaxMembers
MaxBatches == 2          \* times generate_timeslots may run in one behaviour
MaxQueue == 2            \* delayed tasks waiting in the queue

Users == 1..MaxMembers
TeamIds == {1, 2}

----------------------------------------------------------------------------
(* Dates *)

DateOf(dt) == dt \div HoursPerDay
Weekday(d) == d % DaysPerWeek
MondayOf(d) == d - Weekday(d)
Today == DateOf(now)

RECURSIVE SumSet(_)
SumSet(S) == IF S = {} THEN 0
             ELSE LET x == CHOOSE y \in S : TRUE IN x + SumSet(S \ {x})

Min(S) == CHOOSE x \in S : \A y \in S : x <= y

----------------------------------------------------------------------------
(* Team membership *)

ActiveRows(t) == SelectSeq(members[t], LAMBDA r : r.is_active)

\* team.members.filter(is_active=True).values_list('member', flat=True)
ActiveMembers(t) ==
    LET s == ActiveRows(t) IN [i \in 1..Len(s) |-> s[i].member]

MemberCount(t) == Len(ActiveRows(t))

HasRow(t, m) == \E i \in 1..Len(members[t]) : members[t][i].member = m

\* the division rounded down
calculate_required_members_floor == WeekHours \div MAX_WEEKLY_HOURS

\* (total_hours_per_week + max_hours_per_member - 1) // max_hours_per_member
calculate_required_members ==
    (WeekHours + MAX_WEEKLY_HOURS - 1) \div MAX_WEEKLY_HOURS

----------------------------------------------------------------------------
(* Timeslot helpers *)

duration_hours(ts) == ts.end_datetime - ts.start_datetime

SlotsOf(tab, sid) == {i \in DOMAIN tab : tab[i].schedule = sid}

\* sum(ts.duration_hours for ts in S)
SumHours(tab, S) ==
    LET D == {duration_hours(tab[i]) : i \in S}
    IN  SumSet({d * Cardinality({i \in S : duration_hours(tab[i]) = d}) : d \in D})

\* hours of schedule sid assigned to m that start on date d
DailyHours(tab, sid, m, d) ==
    SumHours(tab, {i \in SlotsOf(tab, sid) :
                     /\ tab[i].assigned_member = m
                     /\ ~tab[i].is_break
                     /\ DateOf(tab[i].start_datetime) = d})

WeeklyHours(tab, sid, m) ==
    SumHours(tab, {i \in SlotsOf(tab, sid) :
                     tab[i].assigned_member = m /\ ~tab[i].is_break})

----------------------------------------------------------------------------
(* generate_timeslots: the rows it creates *)

\* the loop with current_datetime advanced before the row is created
CreateTimeslots_late(sid, week_start, nid) ==
    [i \in nid..(nid + WeekHours - 1) |->
        [schedule        |-> sid,
         assigned_member |-> NoMember,
         start_datetime  |-> week_start * HoursPerDay + (i - nid) + 1,
         end_datetime    |-> week_start * HoursPerDay + (i - nid) + 2,
         is_break        |-> FALSE]]

CreateTimeslots(sid, week_start, nid) ==
    [i \in nid..(nid + WeekHours - 1) |->
        [schedule        |-> sid,
         assigned_member |-> NoMember,
         start_datetime  |-> week_start * HoursPerDay + (i - nid),
         end_datetime    |-> week_start * HoursPerDay + (i - nid) + 1,
         is_break        |-> FALSE]]

(* assign_members_with_daily_limits, one day: k is the hour of the day,    *)
(* member_index the rotation cursor (0-based), daily and weekly the two    *)
(* counters, acc the members assigned so far.                              *)
\* the daily test with its comparison turned round
CanAssign_flipped(daily, weekly, m) ==
    daily[m] > MAX_DAILY_HOURS /\ weekly[m] < MAX_WEEKLY_HOURS

\* the test of the while loop: daily < MAX_DAILY_HOURS and weekly < MAX_WEEKLY_HOURS
CanAssign(daily, weekly, m) ==
    daily[m] < MAX_DAILY_HOURS /\ weekly[m] < MAX_WEEKLY_HOURS

RECURSIVE AssignDay(_, _, _, _, _, _)
AssignDay(active, k, member_index, daily, weekly, acc) ==
    IF k = HoursPerDay THEN acc
    ELSE
      LET n    == Len(active)
          At(a) == active[((member_index + a) % n) + 1]
          ok   == {a \in 0..(n - 1) : CanAssign(daily, weekly, At(a))}
      IN  IF ok # {}
          THEN LET a == Min(ok)
                   m == At(a)
               IN  AssignDay(active, k + 1, (member_index + a + 1) % n,
                             [daily EXCEPT ![m] = @ + 1],
                             [weekly EXCEPT ![m] = @ + 1],
                             Append(acc, m))
          ELSE \* emergency assignment to the first member, counters untouched
               AssignDay(active, k + 1, member_index, daily, weekly,
                         Append(acc, active[1]))

RECURSIVE AssignDays(_, _)
AssignDays(active, d) ==
    IF d = DaysPerWeek THEN <<>>
    ELSE LET zero == [m \in {active[i] : i \in 1..Len(active)} |-> 0]
         IN  AssignDay(active, 0, 0, zero, zero, <<>>) \o AssignDays(active, d + 1)

\* the member given to each of the 168 hours, or <<>> when nobody is active
assign_members_with_daily_limits(active) ==
    IF Len(active) = 0 THEN <<>> ELSE AssignDays(active, 0)

\* the rows after the assignment loop has saved them
AssignedRows(created, nid, active) ==
    LET a == assign_members_with_daily_limits(active)
    IN  IF a = <<>> THEN created
        ELSE [i \in DOMAIN created |->
                [created[i] EXCEPT !.assigned_member = a[i - nid + 1]]]

\* generate_timeslots(schedule, config) on table tab
generate_timeslots(tab, sid, week_start, nid, active) ==
    AssignedRows(CreateTimeslots(sid, week_start, nid), nid, active) @@ tab

----------------------------------------------------------------------------
(* validate_schedule: the ScheduleValidation row it stores *)

\* MemberWeeklyHours.objects.filter(member, team, week_start_date).first()
HasWeeklyRecord(m, t, ws) == <<m, t, ws>> \in DOMAIN weekly_hours
weekly_record(m, t, ws) == weekly_hours[<<m, t, ws>>]

\* the fallback test made against the daily cap
WeeklyErrors_wrong_cap(total_hours, m, t, ws) ==
    IF HasWeeklyRecord(m, t, ws)
    THEN LET rec == weekly_record(m, t, ws)
         IN  (IF /\ total_hours > rec.adjusted_weekly_limit
                 /\ ~rec.is_weekend_override
              THEN {"adjusted"} ELSE {})
             \cup
             (IF total_hours > rec.base_weekly_limit + OverageHours
              THEN {"overage"} ELSE {})
    ELSE IF total_hours > MAX_DAILY_HOURS THEN {"weekly"} ELSE {}

\* the errors one member adds to the list: weekly hours against the member's
\* weekly record, or against 40 when there is none
WeeklyErrors(total_hours, m, t, ws) ==
    IF HasWeeklyRecord(m, t, ws)
    THEN LET rec == weekly_record(m, t, ws)
         IN  (IF /\ total_hours > rec.adjusted_weekly_limit
                 /\ ~rec.is_weekend_override
              THEN {"adjusted"} ELSE {})
             \cup
             (IF total_hours > rec.base_weekly_limit + OverageHours
              THEN {"overage"} ELSE {})
    ELSE IF total_hours > MAX_WEEKLY_HOURS THEN {"weekly"} ELSE {}

\* the weekend-override warning of one member
WeeklyWarnings(total_hours, m, t, ws) ==
    IF /\ HasWeeklyRecord(m, t, ws)
       /\ total_hours > weekly_record(m, t, ws).adjusted_weekly_limit
       /\ weekly_record(m, t, ws).is_weekend_override
    THEN {"weekend_override"} ELSE {}

\* the unassigned count taken over the break slots as well
ValidationErrors_counts_breaks(tab, sid, t, ws) ==
    LET act == ActiveMembers(t)
        ms  == {act[i] : i \in 1..Len(act)}
        days == {DateOf(tab[i].start_datetime) : i \in SlotsOf(tab, sid)}
    IN  (IF \E i \in SlotsOf(tab, sid) :
               tab[i].assigned_member = NoMember
         THEN {"unassigned"} ELSE {})
        \cup
        UNION {WeeklyErrors(WeeklyHours(tab, sid, m), m, t, ws) : m \in ms}
        \cup
        (IF \E m \in ms : \E d \in days :
               DailyHours(tab, sid, m, d) > MAX_DAILY_HOURS
         THEN {"daily"} ELSE {})
        \cup
        (IF MemberCount(t) < calculate_required_members
         THEN {"insufficient"} ELSE {})

\* the errors list of validate_schedule, one tag per kind of error
ValidationErrors(tab, sid, t, ws) ==
    LET act == ActiveMembers(t)
        ms  == {act[i] : i \in 1..Len(act)}
        days == {DateOf(tab[i].start_datetime) : i \in SlotsOf(tab, sid)}
    IN  (IF \E i \in SlotsOf(tab, sid) :
               tab[i].assigned_member = NoMember /\ ~tab[i].is_break
         THEN {"unassigned"} ELSE {})
        \cup
        UNION {WeeklyErrors(WeeklyHours(tab, sid, m), m, t, ws) : m \in ms}
        \cup
        (IF \E m \in ms : \E d \in days :
               DailyHours(tab, sid, m, d) > MAX_DAILY_HOURS
         THEN {"daily"} ELSE {})
        \cup
        (IF MemberCount(t) < calculate_required_members
         THEN {"insufficient"} ELSE {})

ValidationWarnings(tab, sid, t, ws) ==
    LET act == ActiveMembers(t)
    IN  UNION {WeeklyWarnings(WeeklyHours(tab, sid, act[i]), act[i], t, ws) :
                 i \in 1..Len(act)}

validate_schedule(tab, sid, t, ws) ==
    LET errors == ValidationErrors(tab, sid, t, ws)
    IN  [is_valid               |-> errors = {},
         has_sufficient_members |-> MemberCount(t) >= calculate_required_members,
         validation_errors      |-> errors,
         validation_warnings    |-> ValidationWarnings(tab, sid, t, ws)]

----------------------------------------------------------------------------
(* The database as one value, so that a handler is a function on it *)

DB == [schedules |-> schedules, timeslots |-> timeslots,
       validations |-> validations, swaps |-> swaps, nextId |-> nextId]

SetDB(db) ==
    /\ schedules' = db.schedules
    /\ timeslots' = db.timeslots
    /\ validations' = db.validations
    /\ swaps' = db.swaps
    /\ nextId' = db.nextId

Restrict(f, S) == [x \in S |-> f[x]]

BatchesUsed(db) == (db.nextId.timeslot - 1) \div WeekHours

\* the lookup made for the week after the one asked for
ScheduleFor_next_week(db, t, ws) ==
    {s \in DOMAIN db.schedules :
        db.schedules[s].team = t
        /\ db.schedules[s].week_start_date = ws + DaysPerWeek}

\* Schedule.objects.filter(team=team, week_start_date=week_start)
ScheduleFor(db, t, ws) ==
    {s \in DOMAIN db.schedules :
        db.schedules[s].team = t /\ db.schedules[s].week_start_date = ws}

\* Schedule.objects.create + generate_timeslots + validate_schedule
CreateAndGenerate(db, t, ws, status) ==
    LET sid == db.nextId.schedule
        nid == db.nextId.timeslot
        Stored(tab) ==
          [db EXCEPT
             !.schedules = (sid :> [team |-> t, week_start_date |-> ws,
                                    week_end_date |-> ws + 6,
                                    status |-> status]) @@ @,
             !.timeslots = tab,
             !.validations = (sid :> validate_schedule(tab, sid, t, ws)) @@ @,
             !.nextId = [@ EXCEPT !.schedule = sid + 1,
                                  !.timeslot = nid + WeekHours]]
    IN  CHOOSE r \in {Stored(tab) : tab \in
                        {generate_timeslots(db.timeslots, sid, ws, nid,
                                            ActiveMembers(t))}} : TRUE

\* schedule.timeslots.all().delete(): the rows and, by cascade, the swap
\* requests that reference them
DeleteTimeslots(db, sid) ==
    LET old == SlotsOf(db.timeslots, sid)
    IN  [db EXCEPT
           !.timeslots = Restrict(@, DOMAIN @ \ old),
           !.swaps = Restrict(@, {r \in DOMAIN @ :
                                    /\ @[r].requester_slot \notin old
                                    /\ @[r].responder_slot \notin old})]

\* the iteration without the delete of the existing timeslots
RegenerateOne_keeps_old(db, sid) ==
    LET nid == db.nextId.timeslot
        t   == db.schedules[sid].team
        Stored(d1, tab) ==
          [d1 EXCEPT
             !.timeslots = tab,
             !.validations = (sid :> validate_schedule(tab, sid, t,
                                  d1.schedules[sid].week_start_date)) @@ @,
             !.nextId = [@ EXCEPT !.timeslot = nid + WeekHours]]
    IN  CHOOSE r \in UNION
          {{Stored(d1, tab) : tab \in
              {generate_timeslots(d1.timeslots, sid,
                                  d1.schedules[sid].week_start_date,
                                  nid, ActiveMembers(t))}} :
             d1 \in {db}} : TRUE

\* one iteration of the loop of regenerate_schedules_for_team
RegenerateOne(db, sid) ==
    LET nid == db.nextId.timeslot
        t   == db.schedules[sid].team
        Stored(d1, tab) ==
          [d1 EXCEPT
             !.timeslots = tab,
             !.validations = (sid :> validate_schedule(tab, sid, t,
                                  d1.schedules[sid].week_start_date)) @@ @,
             !.nextId = [@ EXCEPT !.timeslot = nid + WeekHours]]
    IN  CHOOSE r \in UNION
          {{Stored(d1, tab) : tab \in
              {generate_timeslots(d1.timeslots, sid,
                                  d1.schedules[sid].week_start_date,
                                  nid, ActiveMembers(t))}} :
             d1 \in {DeleteTimeslots(db, sid)}} : TRUE

\* the filter without the week_start_date__gte condition
SchedulesToUpdate_every_week(db, t, from_date) ==
    {s \in DOMAIN db.schedules : db.schedules[s].team = t}

\* Schedule.objects.filter(team=team, week_start_date__gte=from_date)
SchedulesToUpdate(db, t, from_date) ==
    {s \in DOMAIN db.schedules :
        db.schedules[s].team = t /\ db.schedules[s].week_start_date >= from_date}

\* the loop, in order of week_start_date
RECURSIVE RegenerateAll(_, _)
RegenerateAll(db, todo) ==
    IF todo = {} THEN db
    ELSE LET s == CHOOSE x \in todo :
                    \A y \in todo : db.schedules[x].week_start_date
                                      <= db.schedules[y].week_start_date
         IN  RegenerateAll(RegenerateOne(db, s), todo \ {s})

FromDate(from_date) == IF from_date = NoTime THEN Today + 1 ELSE from_date

regenerate_schedules_for_team(db, t, from_date) ==
    RegenerateAll(db, SchedulesToUpdate(db, t, FromDate(from_date)))

\* generate_weekly_schedules: every team in turn, next week's Monday
RECURSIVE WeeklyLoop(_, _)
WeeklyLoop(db, teams) ==
    IF teams = {} THEN db
    ELSE LET t  == Min(teams)
             ws == MondayOf(Today) + DaysPerWeek
         IN  IF ScheduleFor(db, t, ws) # {} \/ MemberCount(t) < calculate_required_members
             THEN WeeklyLoop(db, teams \ {t})
             ELSE WeeklyLoop(CreateAndGenerate(db, t, ws, "published"), teams \ {t})

generate_weekly_schedules(db) == WeeklyLoop(db, TeamIds)

\* check_and_start_auto_scheduling
check_and_start_auto_scheduling(db, t) ==
    IF MemberCount(t) >= MinTeamSize
    THEN regenerate_schedules_for_team(generate_weekly_schedules(db), t, NoTime)
    ELSE db

----------------------------------------------------------------------------
(* Sequential specification of generation, regeneration and membership *)

ChurnUsers == {1, 2}                 \* users whose membership of team 1 changes
WeekStartInputs == {NoTime, 3, 7}    \* week_start_date of a request; NoTime = absent
FromDateInputs == {NoTime, 0}        \* from_date of a request; NoTime = absent

NoResp == [op |-> "none", ok |-> TRUE, error |-> "none"]
WorkerIds == {1, 2}                  \* celery worker processes
IdleWorker == [pc |-> "idle", team |-> 0, todo |-> <<>>, nid |-> 0]
Idle == [w \in WorkerIds |-> IdleWorker]

InitialRows(n) == [i \in 1..n |-> [member |-> n + 1 - i, is_active |-> TRUE]]

EmptyDB ==
    /\ schedules = <<>>
    /\ timeslots = <<>>
    /\ validations = <<>>
    /\ swaps = <<>>
    /\ nextId = [schedule |-> 1, timeslot |-> 1, swap |-> 1]

InitGen ==
    /\ weekly_hours = <<>>
    /\ \E n \in 1..MaxMembers :
          members = [t \in TeamIds |->
                       IF t = 1 THEN InitialRows(n) ELSE InitialRows(MinTeamSize)]
    /\ EmptyDB
    /\ now = 0
    /\ queue = <<>>
    /\ workers = Idle
    /\ resp = NoResp

\* views.generate_schedule
GenerateSchedule(t, week_start_in) ==
    LET week_start == IF week_start_in = NoTime THEN MondayOf(Today)
                      ELSE week_start_in
    IN  /\ BatchesUsed(DB) < MaxBatches
        /\ IF MemberCount(t) < calculate_required_members
           THEN /\ resp' = [op |-> "generate_schedule", ok |-> FALSE,
                            error |-> "insufficient",
                            required_members |-> calculate_required_members,
                            current_members |-> MemberCount(t)]
                /\ UNCHANGED <<weekly_hours, schedules, timeslots, validations, swaps, nextId>>
           ELSE IF ScheduleFor(DB, t, week_start) # {}
           THEN /\ resp' = [op |-> "generate_schedule", ok |-> FALSE,
                            error |-> "exists"]
                /\ UNCHANGED <<weekly_hours, schedules, timeslots, validations, swaps, nextId>>
           ELSE /\ SetDB(CreateAndGenerate(DB, t, week_start, "draft"))
                /\ resp' = [op |-> "generate_schedule", ok |-> TRUE,
                            error |-> "none"]
        /\ UNCHANGED <<weekly_hours, members, now, queue, workers>>

\* views.regenerate_team_schedules: queues the task
RegenerateTeamSchedules(t, from_date_in) ==
    /\ Len(queue) < MaxQueue
    /\ queue' = Append(queue, [task |-> "regenerate", team |-> t,
                               from_date |-> FromDate(from_date_in)])
    /\ resp' = [op |-> "regenerate_team_schedules", ok |-> TRUE, error |-> "none"]
    /\ UNCHANGED <<weekly_hours, members, schedules, timeslots, validations, swaps, nextId,
                   now, workers>>

\* TeamMembers row created: post_save, created, is_active
AddMember(t, m) ==
    /\ ~HasRow(t, m)
    /\ Len(queue) < MaxQueue
    /\ members' = [members EXCEPT
                     ![t] = <<[member |-> m, is_active |-> TRUE]>> \o @]
    /\ queue' = Append(queue, [task |-> "check_auto", team |-> t,
                               from_date |-> NoTime])
    /\ resp' = NoResp
    /\ UNCHANGED <<weekly_hours, schedules, timeslots, validations, swaps, nextId, now, workers>>

\* TeamMembers row deleted: post_delete
RemoveMember(t, m) ==
    /\ HasRow(t, m)
    /\ Len(queue) < MaxQueue
    /\ members' = [members EXCEPT ![t] = SelectSeq(@, LAMBDA r : r.member # m)]
    /\ queue' = Append(queue, [task |-> "regenerate", team |-> t,
                               from_date |-> NoTime])
    /\ resp' = NoResp
    /\ UNCHANGED <<weekly_hours, schedules, timeslots, validations, swaps, nextId, now, workers>>

\* TeamMembers row saved with another is_active: post_save, not created
SetActive(t, m, b) ==
    /\ \E i \in 1..Len(members[t]) :
          /\ members[t][i].member = m
          /\ members[t][i].is_active # b
          /\ members' = [members EXCEPT ![t][i].is_active = b]
    /\ IF b THEN /\ Len(queue) < MaxQueue
                 /\ queue' = Append(queue, [task |-> "regenerate", team |-> t,
                                            from_date |-> NoTime])
            ELSE UNCHANGED queue
    /\ resp' = NoResp
    /\ UNCHANGED <<weekly_hours, schedules, timeslots, validations, swaps, nextId, now, workers>>

\* the batches of timeslots a task is going to create
TaskBatches(task) ==
    LET regen(db) == Cardinality(SchedulesToUpdate(db, task.team,
                                                   FromDate(task.from_date)))
    IN  IF task.task = "regenerate" THEN regen(DB)
        ELSE IF MemberCount(task.team) < MinTeamSize THEN 0
        ELSE LET db == generate_weekly_schedules(DB)
             IN  BatchesUsed(db) - BatchesUsed(DB) + regen(db)

\* a celery worker runs the task at the head of the queue
RunTaskWithin(limit) ==
    /\ queue # <<>>
    /\ LET task == Head(queue)
       IN  /\ BatchesUsed(DB) + TaskBatches(task) <= limit
           /\ SetDB(IF task.task = "regenerate"
                    THEN regenerate_schedules_for_team(DB, task.team, task.from_date)
                    ELSE check_and_start_auto_scheduling(DB, task.team))
           /\ resp' = [op |-> task.task, ok |-> TRUE, error |-> "none"]
    /\ queue' = Tail(queue)
    /\ UNCHANGED <<weekly_hours, members, now, workers>>

RunTask == RunTaskWithin(MaxBatches)

\* failed_teams of generate_weekly_schedules: the teams without a schedule
\* for next week that have too few members, with the two counts
failed_teams(db) ==
    {[team |-> t, need |-> calculate_required_members, have |-> MemberCount(t)] :
       t \in {u \in TeamIds :
                /\ ScheduleFor(db, u, MondayOf(Today) + DaysPerWeek) = {}
                /\ MemberCount(u) < calculate_required_members}}

\* the beat task generate_weekly_schedules
GenerateWeeklySchedules ==
    /\ BatchesUsed(generate_weekly_schedules(DB)) <= MaxBatches
    /\ SetDB(generate_weekly_schedules(DB))
    /\ resp' = [op |-> "generate_weekly_schedules", ok |-> TRUE, error |-> "none",
                failed_teams |-> failed_teams(DB)]
    /\ UNCHANGED <<weekly_hours, members, now, queue, workers>>

NextGen ==
    \/ \E t \in TeamIds, w \in WeekStartInputs : GenerateSchedule(t, w)
    \/ GenerateWeeklySchedules

SpecGen == InitGen /\ [][NextGen]_vars

----------------------------------------------------------------------------
(* regenerate_schedules_for_team run by concurrent celery workers, one     *)
(* database statement group per step: the query of the schedules, the      *)
(* delete, the creation loop, the assignment loop, the validation.         *)

EmptyDBValue ==
    [schedules |-> <<>>, timeslots |-> <<>>, validations |-> <<>>,
     swaps |-> <<>>, nextId |-> [schedule |-> 1, timeslot |-> 1, swap |-> 1]]

RECURSIVE SortByWeek(_, _)
SortByWeek(sch, S) ==
    IF S = {} THEN <<>>
    ELSE LET s == CHOOSE x \in S :
                    \A y \in S : sch[x].week_start_date <= sch[y].week_start_date
         IN  <<s>> \o SortByWeek(sch, S \ {s})

\* the state after generate_weekly_schedules has run for a team of
\* MaxMembers on day 0
InitRace ==
    /\ weekly_hours = <<>>
    /\ members = [t \in TeamIds |->
                    IF t = 1 THEN InitialRows(MaxMembers) ELSE InitialRows(MinTeamSize)]
    /\ now = 0
    /\ \E db \in {CreateAndGenerate(EmptyDBValue, 1, DaysPerWeek, "published")} :
           /\ schedules = db.schedules
           /\ timeslots = db.timeslots
           /\ validations = db.validations
           /\ swaps = db.swaps
           /\ nextId = db.nextId
    /\ queue = <<>>
    /\ workers = Idle
    /\ resp = NoResp

\* a worker takes the task and evaluates schedules_to_update
WorkerStart(w) ==
    /\ workers[w].pc = "idle"
    /\ queue # <<>>
    /\ Head(queue).task = "regenerate"
    /\ LET task == Head(queue)
           todo == SortByWeek(schedules,
                              SchedulesToUpdate(DB, task.team, FromDate(task.from_date)))
       IN  workers' = [workers EXCEPT ![w] =
                         [pc |-> IF todo = <<>> THEN "idle" ELSE "delete",
                          team |-> task.team, todo |-> todo, nid |-> 0]]
    /\ queue' = Tail(queue)
    /\ UNCHANGED <<weekly_hours, members, schedules, timeslots, validations, swaps, nextId,
                   now, resp>>

\* schedule.timeslots.all().delete()
WorkerDelete(w) ==
    /\ workers[w].pc = "delete"
    /\ LET db == DeleteTimeslots(DB, Head(workers[w].todo))
       IN  timeslots' = db.timeslots /\ swaps' = db.swaps
    /\ workers' = [workers EXCEPT ![w].pc = "create"]
    /\ UNCHANGED <<weekly_hours, members, schedules, validations, nextId, now, queue, resp>>

\* the loop of Timeslot.objects.create in generate_timeslots
WorkerCreate(w) ==
    /\ workers[w].pc = "create"
    /\ LET sid == Head(workers[w].todo)
           nid == nextId.timeslot
       IN  /\ timeslots' = CreateTimeslots(sid, schedules[sid].week_start_date, nid)
                              @@ timeslots
           /\ nextId' = [nextId EXCEPT !.timeslot = nid + WeekHours]
           /\ workers' = [workers EXCEPT ![w].pc = "assign", ![w].nid = nid]
    /\ UNCHANGED <<weekly_hours, members, schedules, validations, swaps, now, queue, resp>>

\* assign_members_with_daily_limits: timeslot.save() on the worker's own
\* objects; save() of a row that is gone inserts it again
WorkerAssign(w) ==
    /\ workers[w].pc = "assign"
    /\ LET sid == Head(workers[w].todo)
           nid == workers[w].nid
           active == ActiveMembers(workers[w].team)
       IN  timeslots' =
             IF Len(active) = 0 THEN timeslots
             ELSE AssignedRows(CreateTimeslots(sid, schedules[sid].week_start_date, nid),
                               nid, active) @@ timeslots
    /\ workers' = [workers EXCEPT ![w].pc = "validate"]
    /\ UNCHANGED <<weekly_hours, members, schedules, validations, swaps, nextId, now, queue, resp>>

\* validate_schedule, then the next schedule of the loop
WorkerValidate(w) ==
    /\ workers[w].pc = "validate"
    /\ LET sid == Head(workers[w].todo)
       IN  validations' = (sid :> validate_schedule(timeslots, sid, workers[w].team,
                                                   schedules[sid].week_start_date))
                            @@ validations
    /\ workers' = [workers EXCEPT ![w] =
                     IF Tail(@.todo) = <<>> THEN IdleWorker
                     ELSE [@ EXCEPT !.pc = "delete", !.todo = Tail(@), !.nid = 0]]
    /\ resp' = [op |-> "regenerate", ok |-> TRUE, error |-> "none"]
    /\ UNCHANGED <<weekly_hours, members, schedules, timeslots, swaps, nextId, now, queue>>

NextRace ==
    \/ \E m \in ChurnUsers : RemoveMember(1, m)
    \/ \E w \in WorkerIds : WorkerStart(w)
    \/ \E w \in WorkerIds : WorkerDelete(w)
    \/ \E w \in WorkerIds : WorkerCreate(w)
    \/ \E w \in WorkerIds : WorkerAssign(w)
    \/ \E w \in WorkerIds : WorkerValidate(w)

SpecRace == InitRace /\ [][NextRace]_vars

AllFinished == queue = <<>> /\ \A w \in WorkerIds : workers[w].pc = "idle"

\* two rows of one schedule with the same start/end range
HasDuplicateRange(sid) ==
    \E i, j \in SlotsOf(timeslots, sid) :
        /\ i # j
        /\ timeslots[i].start_datetime = timeslots[j].start_datetime
        /\ timeslots[i].end_datetime = timeslots[j].end_datetime

----------------------------------------------------------------------------
(* Swap requests *)

MaxSwaps == 2            \* swap requests created in one behaviour
MaxNow == 1              \* last hour the clock reaches

\* the slots the requests are about: hours 25 and 26 of week 0 and hour 27
\* of week 1 of team 1; they belong to members 4, 3 and 2
SwapSlots == {26, 27, 1 * WeekHours + 28}
ActingUsers == {3, 4}                \* the users sending requests
Reasons == {"busy"}

\* request bodies sent to create_swap_request: responder, requester_slot,
\* responder_slot
Bodies == {<<4, 27, 1 * WeekHours + 28>>}

\* the schedules of two weeks generated for a team of MinTeamSize members
InitSwapDB ==
    CreateAndGenerate(CreateAndGenerate(EmptyDBValue, 1, 0, "published"),
                      1, DaysPerWeek, "published")

InitSwap ==
    /\ weekly_hours = <<>>
    /\ members = [t \in TeamIds |-> InitialRows(MinTeamSize)]
    /\ now = 0
    /\ \E db \in {InitSwapDB} :
           /\ schedules = db.schedules
           /\ timeslots = db.timeslots
           /\ validations = db.validations
           /\ swaps = db.swaps
           /\ nextId = db.nextId
    /\ queue = <<>>
    /\ workers = Idle
    /\ resp = NoResp

SwapResp(op, ok) == [op |-> op, ok |-> ok, error |-> IF ok THEN "none" ELSE "refused"]

Refuse(op) ==
    /\ resp' = SwapResp(op, FALSE)
    /\ UNCHANGED <<weekly_hours, members, schedules, timeslots, validations, swaps, nextId,
                   now, queue, workers>>

\* deadline set by both create(): 24 hours before the first slot starts
Deadline(rs, ps) ==
    LET a == timeslots[rs].start_datetime
        b == timeslots[ps].start_datetime
    IN  (IF a <= b THEN a ELSE b) - DeadlineHours

NewSwap(requester, responder, rs, ps) ==
    [requester |-> requester, responder |-> responder,
     requester_slot |-> rs, responder_slot |-> ps,
     status |-> "pending", deadline |-> Deadline(rs, ps),
     processed_at |-> NoTime, rejection_reason |-> ""]

\* uniqueness that only counts pending requests
PairExists_pending(rs, ps) ==
    \E r \in DOMAIN swaps :
        /\ swaps[r].requester_slot = rs /\ swaps[r].responder_slot = ps
        /\ swaps[r].status = "pending"

\* unique_together = ['requester_slot', 'responder_slot']
PairExists(rs, ps) ==
    \E r \in DOMAIN swaps :
        swaps[r].requester_slot = rs /\ swaps[r].responder_slot = ps

\* SwapRequest.objects.create: the insert fails on the unique constraint, and
\* both views turn the exception into an error response
StoreSwap(row) ==
    IF PairExists(row.requester_slot, row.responder_slot)
    THEN Refuse("create")
    ELSE /\ swaps' = (nextId.swap :> row) @@ swaps
         /\ nextId' = [nextId EXCEPT !.swap = @ + 1]
         /\ resp' = SwapResp("create", TRUE)
         /\ UNCHANGED <<weekly_hours, members, schedules, timeslots, validations, now, queue,
                        workers>>

\* assign_task create_swap_request: the model serializer checks that the
\* rows exist and that the slot pair is unique, nothing else
create_swap_request(user, responder, rs, ps) ==
    /\ nextId.swap <= MaxSwaps
    /\ IF \/ rs \notin DOMAIN timeslots
          \/ ps \notin DOMAIN timeslots
          \/ responder \notin Users
          \/ PairExists(rs, ps)
       THEN Refuse("create")
       ELSE StoreSwap(NewSwap(user, responder, rs, ps))

\* member_dashboard SwapRequestCreateSerializer.validate_requester_slot
validate_requester_slot(user, rs) ==
    /\ rs \in DOMAIN timeslots
    /\ timeslots[rs].assigned_member # NoMember
    /\ timeslots[rs].assigned_member = user
    /\ timeslots[rs].start_datetime > now
    /\ ~timeslots[rs].is_break
    /\ ~\E r \in DOMAIN swaps :
          swaps[r].requester_slot = rs /\ swaps[r].status = "pending"

\* member_dashboard SwapRequestCreateSerializer.validate_responder_slot_id
validate_responder_slot_id(ps) ==
    /\ ps \in DOMAIN timeslots
    /\ timeslots[ps].assigned_member # NoMember
    /\ timeslots[ps].start_datetime > now
    /\ ~timeslots[ps].is_break
    /\ ~\E r \in DOMAIN swaps :
          swaps[r].responder_slot = ps /\ swaps[r].status = "pending"

\* member_dashboard SwapRequestCreateSerializer.validate
validate(rs, ps) ==
    /\ schedules[timeslots[rs].schedule].team = schedules[timeslots[ps].schedule].team
    /\ timeslots[rs].assigned_member # timeslots[ps].assigned_member
    /\ ~PairExists(rs, ps)

\* member_dashboard SwapRequestViewSet.create
SwapRequestViewSet_create(user, rs, ps) ==
    /\ nextId.swap <= MaxSwaps
    /\ IF /\ validate_requester_slot(user, rs)
          /\ validate_responder_slot_id(ps)
          /\ validate(rs, ps)
       THEN StoreSwap(NewSwap(user, timeslots[ps].assigned_member, rs, ps))
       ELSE Refuse("create")

\* is_valid with the deadline hour still allowed
is_valid_inclusive(r) ==
    /\ swaps[r].status = "pending"
    /\ now <= swaps[r].deadline
    /\ timeslots[swaps[r].requester_slot].assigned_member = swaps[r].requester
    /\ timeslots[swaps[r].responder_slot].assigned_member = swaps[r].responder

\* is_valid without the comparison of the slots' members with the parties
is_valid_any_owner(r) ==
    /\ swaps[r].status = "pending"
    /\ now < swaps[r].deadline

\* SwapRequest.is_valid
is_valid(r) ==
    /\ swaps[r].status = "pending"
    /\ now < swaps[r].deadline
    /\ timeslots[swaps[r].requester_slot].assigned_member = swaps[r].requester
    /\ timeslots[swaps[r].responder_slot].assigned_member = swaps[r].responder

\* SwapRequest.can_be_accepted
can_be_accepted(r) == is_valid(r) /\ swaps[r].status = "pending"

\* the exchange written without temp_member
Exchanged_no_temp(tab, rs, ps) ==
    [[tab EXCEPT ![rs].assigned_member = tab[ps].assigned_member]
          EXCEPT ![ps].assigned_member = tab[ps].assigned_member]

\* the two saves of SwapRequest.accept, requester_slot first
Exchanged(tab, rs, ps) ==
    [[tab EXCEPT ![rs].assigned_member = tab[ps].assigned_member]
          EXCEPT ![ps].assigned_member = tab[rs].assigned_member]

\* SwapRequest.accept when nothing fails
accept(r) ==
    /\ timeslots' = Exchanged(timeslots, swaps[r].requester_slot,
                              swaps[r].responder_slot)
    /\ swaps' = [swaps EXCEPT ![r].status = "processed",
                              ![r].processed_at = now]
    /\ resp' = SwapResp("accept", TRUE)
    /\ UNCHANGED <<weekly_hours, members, schedules, validations, nextId, now, queue, workers>>

\* accept without the check that the caller is the responder
accept_swap_request_any_user(user, r) ==
    IF r \in DOMAIN swaps /\ can_be_accepted(r)
    THEN accept(r)
    ELSE Refuse("accept")

\* assign_task accept_swap_request and SwapRequestViewSet.accept: only the
\* responder finds the request, and it must be acceptable
accept_swap_request(user, r) ==
    IF r \in DOMAIN swaps /\ swaps[r].responder = user /\ can_be_accepted(r)
    THEN accept(r)
    ELSE Refuse("accept")

\* SwapRequest.reject
reject(r, reason) ==
    /\ swaps' = [swaps EXCEPT ![r].status = "rejected",
                              ![r].rejection_reason = reason]
    /\ resp' = SwapResp("reject", TRUE)
    /\ UNCHANGED <<weekly_hours, members, schedules, timeslots, validations, nextId, now,
                   queue, workers>>

\* reject without the status check
reject_swap_request_any_status(user, r, reason) ==
    IF r \in DOMAIN swaps /\ swaps[r].responder = user
    THEN reject(r, reason)
    ELSE Refuse("reject")

\* assign_task reject_swap_request and SwapRequestViewSet.reject
reject_swap_request(user, r, reason) ==
    IF r \in DOMAIN swaps /\ swaps[r].responder = user /\ swaps[r].status = "pending"
    THEN reject(r, reason)
    ELSE Refuse("reject")

\* the clock
Tick ==
    /\ now < MaxNow
    /\ now' = now + 1
    /\ UNCHANGED <<weekly_hours, members, schedules, timeslots, validations, swaps, nextId,
                   queue, workers, resp>>

NextSwap ==
    \/ \E u \in ActingUsers, b \in Bodies : create_swap_request(u, b[1], b[2], b[3])
    \/ \E u \in ActingUsers, rs, ps \in SwapSlots : SwapRequestViewSet_create(u, rs, ps)
    \/ \E u \in ActingUsers, r \in 1..MaxSwaps : accept_swap_request(u, r)
    \/ \E u \in ActingUsers, r \in 1..MaxSwaps, x \in Reasons :
          reject_swap_request(u, r, x)
    \/ Tick

SpecSwap == InitSwap /\ [][NextSwap]_vars

----------------------------------------------------------------------------
(* SwapRequest.accept when one of its three saves raises.  accept() opens no
   transaction, so every save that returned has reached the database; the
   except branch marks the request rejected and saves it. *)

PairSlots == {26, 27}               \* the two slots the handlers work on

FaultPoints == {"none", "requester_slot.save", "responder_slot.save", "self.save"}

SavedBeforeFault(tab, rs, ps, f) ==
    CASE f = "requester_slot.save" -> tab
      [] f = "responder_slot.save" ->
             [tab EXCEPT ![rs].assigned_member = tab[ps].assigned_member]
      [] OTHER -> Exchanged(tab, rs, ps)

accept_except(r, f) ==
    /\ timeslots' = SavedBeforeFault(timeslots, swaps[r].requester_slot,
                                     swaps[r].responder_slot, f)
    /\ swaps' = [swaps EXCEPT ![r].status = "rejected",
                              ![r].rejection_reason = "Processing failed"]
    /\ resp' = SwapResp("accept", FALSE)
    /\ UNCHANGED <<weekly_hours, members, schedules, validations, nextId, now, queue, workers>>

AcceptWithFault(user, r, f) ==
    IF r \in DOMAIN swaps /\ swaps[r].responder = user /\ can_be_accepted(r)
    THEN IF f = "none" THEN accept(r) ELSE accept_except(r, f)
    ELSE Refuse("accept")

NextSwapFault ==
    \/ \E u \in ActingUsers, rs, ps \in PairSlots : SwapRequestViewSet_create(u, rs, ps)
    \/ \E u \in ActingUsers, r \in 1..MaxSwaps, f \in FaultPoints :
          AcceptWithFault(u, r, f)
    \/ \E u \in ActingUsers, r \in 1..MaxSwaps, x \in Reasons :
          reject_swap_request(u, r, x)

SpecSwapFault == InitSwap /\ [][NextSwapFault]_vars

----------------------------------------------------------------------------
(* Two request handlers working on swap requests at the same time.  A handler
   first loads the request (and, for accept, its two slots) and runs its
   checks on what it loaded; its writes are full-row saves of those loaded
   objects. *)

HandlerIds == {1, 2}
IdleHandler == [pc |-> "idle", r |-> 0, row |-> <<>>, rs_member |-> NoMember,
                ps_member |-> NoMember, reason |-> ""]

InitSwapRace ==
    /\ weekly_hours = <<>>
    /\ members = [t \in TeamIds |-> InitialRows(MinTeamSize)]
    /\ now = 0
    /\ \E db \in {InitSwapDB} :
           /\ schedules = db.schedules
           /\ timeslots = db.timeslots
           /\ validations = db.validations
           /\ swaps = db.swaps
           /\ nextId = db.nextId
    /\ queue = <<>>
    /\ workers = [h \in HandlerIds |-> IdleHandler]
    /\ resp = NoResp

\* get_object(), the responder check and can_be_accepted() of the accept views
AcceptLoad(h, user, r) ==
    /\ workers[h].pc = "idle"
    /\ r \in DOMAIN swaps
    /\ IF swaps[r].responder = user /\ can_be_accepted(r)
       THEN /\ workers' = [workers EXCEPT ![h] =
                  [pc |-> "accept", r |-> r, row |-> swaps[r],
                   rs_member |-> timeslots[swaps[r].requester_slot].assigned_member,
                   ps_member |-> timeslots[swaps[r].responder_slot].assigned_member,
                   reason |-> ""]]
            /\ UNCHANGED <<weekly_hours, members, schedules, timeslots, validations, swaps,
                           nextId, now, queue, resp>>
       ELSE Refuse("accept")

\* SwapRequest.accept on the loaded objects: the checks pass again on the
\* loaded values, then requester_slot.save(), responder_slot.save(), self.save()
AcceptWrite(h) ==
    /\ workers[h].pc = "accept"
    /\ LET w == workers[h]
       IN  /\ timeslots' = [timeslots EXCEPT
                  ![w.row.requester_slot].assigned_member = w.ps_member,
                  ![w.row.responder_slot].assigned_member = w.rs_member]
           /\ swaps' = [swaps EXCEPT ![w.r] =
                  [w.row EXCEPT !.status = "processed", !.processed_at = now]]
    /\ workers' = [workers EXCEPT ![h] = IdleHandler]
    /\ resp' = SwapResp("accept", TRUE)
    /\ UNCHANGED <<weekly_hours, members, schedules, validations, nextId, now, queue>>

\* get_object(), the responder check and the status check of the reject views
RejectLoad(h, user, r, reason) ==
    /\ workers[h].pc = "idle"
    /\ r \in DOMAIN swaps
    /\ IF swaps[r].responder = user /\ swaps[r].status = "pending"
       THEN /\ workers' = [workers EXCEPT ![h] =
                  [pc |-> "reject", r |-> r, row |-> swaps[r],
                   rs_member |-> NoMember, ps_member |-> NoMember,
                   reason |-> reason]]
            /\ UNCHANGED <<weekly_hours, members, schedules, timeslots, validations, swaps,
                           nextId, now, queue, resp>>
       ELSE Refuse("reject")

\* SwapRequest.reject on the loaded object
RejectWrite(h) ==
    /\ workers[h].pc = "reject"
    /\ LET w == workers[h]
       IN  swaps' = [swaps EXCEPT ![w.r] =
                  [w.row EXCEPT !.status = "rejected",
                                !.rejection_reason = w.reason]]
    /\ workers' = [workers EXCEPT ![h] = IdleHandler]
    /\ resp' = SwapResp("reject", TRUE)
    /\ UNCHANGED <<weekly_hours, members, schedules, timeslots, validations, nextId, now, queue>>

NextSwapRace ==
    \/ \E u \in ActingUsers, rs, ps \in PairSlots : SwapRequestViewSet_create(u, rs, ps)
    \/ \E h \in HandlerIds, u \in ActingUsers, r \in 1..MaxSwaps : AcceptLoad(h, u, r)
    \/ \E h \in HandlerIds : AcceptWrite(h)
    \/ \E h \in HandlerIds, u \in ActingUsers, r \in 1..MaxSwaps, x \in Reasons :
          RejectLoad(h, u, r, x)
    \/ \E h \in HandlerIds : RejectWrite(h)

SpecSwapRace == InitSwapRace /\ [][NextSwapRace]_vars

HandlersFinished == \A h \in HandlerIds : workers[h].pc = "idle"

----------------------------------------------------------------------------
(* Membership changes of a team that has a schedule, with the regeneration
   tasks they queue run one at a time by a single worker *)

LeavingUsers == {3, 4}               \* members whose TeamMembers row is deleted

\* the state after generate_weekly_schedules has run on day 0 for team 1 with
\* MinTeamSize members
InitTeam ==
    /\ weekly_hours = <<>>
    /\ members = [t \in TeamIds |-> InitialRows(MinTeamSize)]
    /\ now = 0
    /\ \E db \in {CreateAndGenerate(EmptyDBValue, 1, DaysPerWeek, "published")} :
           /\ schedules = db.schedules
           /\ timeslots = db.timeslots
           /\ validations = db.validations
           /\ swaps = db.swaps
           /\ nextId = db.nextId
    /\ queue = <<>>
    /\ workers = Idle
    /\ resp = NoResp

NextTeam ==
    \/ \E m \in LeavingUsers : RemoveMember(1, m)
    \/ \E m \in ChurnUsers, b \in BOOLEAN : SetActive(1, m, b)
    \/ RunTask

SpecTeam == InitTeam /\ [][NextTeam]_vars

----------------------------------------------------------------------------
(* validate_schedule on the schedules the database can hold: a draft whose  *)
(* timeslots were edited after generation, a membership that changed, and   *)
(* a MemberWeeklyHours record of the member that owns the slots            *)

TeamSizes == {MinTeamSize - 1, MinTeamSize, MinTeamSize + 1}
DayLengths == {5, 6, 7, 8}           \* hours of the one slot of each day
ExtraOwners == {NoMember, 1, 2}      \* assigned_member of the extra slot
AdjustedLimits == {MAX_WEEKLY_HOURS, MAX_WEEKLY_HOURS + 4, MAX_WEEKLY_HOURS + 12}
ScheduleIdInputs == {1, 2}           \* schedule_id of a request

\* one slot of len hours each day of the week for member 1, then one more
\* slot of one hour on the first day
EditedTimeslots(ws, len, owner, brk) ==
    [i \in 1..(DaysPerWeek + 1) |->
        IF i <= DaysPerWeek
        THEN [schedule        |-> 1,
              assigned_member |-> 1,
              start_datetime  |-> (ws + i - 1) * HoursPerDay,
              end_datetime    |-> (ws + i - 1) * HoursPerDay + len,
              is_break        |-> FALSE]
        ELSE [schedule        |-> 1,
              assigned_member |-> owner,
              start_datetime  |-> ws * HoursPerDay + len,
              end_datetime    |-> ws * HoursPerDay + len + 1,
              is_break        |-> brk]]

WeeklyRecords(m, t, ws) ==
    {<<>>} \cup
    {(<<m, t, ws>> :> [base_weekly_limit     |-> MAX_WEEKLY_HOURS,
                       adjusted_weekly_limit |-> a,
                       is_weekend_override   |-> o]) :
        a \in AdjustedLimits, o \in BOOLEAN}

InitValidate ==
    /\ weekly_hours \in WeeklyRecords(1, 1, DaysPerWeek)
    /\ \E n \in TeamSizes, a \in BOOLEAN :
          members = [t \in TeamIds |->
                       IF t = 1
                       THEN [InitialRows(n) EXCEPT ![n].is_active = a]
                       ELSE InitialRows(MinTeamSize)]
    /\ schedules = (1 :> [team |-> 1, week_start_date |-> DaysPerWeek,
                          week_end_date |-> DaysPerWeek + 6,
                          status |-> "draft"])
    /\ \E len \in DayLengths, owner \in ExtraOwners, brk \in BOOLEAN :
          timeslots = EditedTimeslots(DaysPerWeek, len, owner, brk)
    /\ validations = <<>>
    /\ swaps = <<>>
    /\ nextId = [schedule |-> 2, timeslot |-> DaysPerWeek + 2, swap |-> 1]
    /\ now = 0
    /\ queue = <<>>
    /\ workers = Idle
    /\ resp = NoResp

\* views.validate_schedule_endpoint
validate_schedule_endpoint(schedule_id) ==
    /\ IF schedule_id \in DOMAIN schedules
       THEN /\ validations' =
                 (schedule_id :>
                    validate_schedule(timeslots, schedule_id,
                                      schedules[schedule_id].team,
                                      schedules[schedule_id].week_start_date))
                 @@ validations
            /\ resp' = [op |-> "validate_schedule", ok |-> TRUE,
                        error |-> "none",
                        is_valid |-> validations'[schedule_id].is_valid,
                        validation_errors |->
                            validations'[schedule_id].validation_errors,
                        schedule_id |-> schedule_id]
       ELSE /\ resp' = [op |-> "validate_schedule", ok |-> FALSE,
                        error |-> "not_found"]
            /\ UNCHANGED validations
    /\ UNCHANGED <<weekly_hours, members, schedules, timeslots, swaps, nextId,
                   now, queue, workers>>

NextValidate == \E schedule_id \in ScheduleIdInputs :
                    validate_schedule_endpoint(schedule_id)

SpecValidate == InitValidate /\ [][NextValidate]_vars

----------------------------------------------------------------------------
(* Regeneration requests on a database that holds schedules of two teams   *)
(* and two weeks: next week's schedules of the weekly task and a draft of  *)
(* team 1 for the current week.  Requests and membership changes are made  *)
(* when the queue is empty                                                 *)

InitRegen ==
    /\ weekly_hours = <<>>
    /\ members = [t \in TeamIds |-> InitialRows(MinTeamSize)]
    /\ now = 0
    /\ \E db \in {CreateAndGenerate(generate_weekly_schedules(EmptyDBValue),
                                    1, MondayOf(Today), "draft")} :
           /\ schedules = db.schedules
           /\ timeslots = db.timeslots
           /\ validations = db.validations
           /\ swaps = db.swaps
           /\ nextId = db.nextId
    /\ queue = <<>>
    /\ workers = Idle
    /\ resp = NoResp

NextRegen ==
    \/ \E t \in TeamIds, f \in FromDateInputs :
          queue = <<>> /\ RegenerateTeamSchedules(t, f)
    \/ \E m \in ChurnUsers, b \in BOOLEAN : queue = <<>> /\ SetActive(1, m, b)
    \/ \E m \in LeavingUsers : queue = <<>> /\ RemoveMember(1, m)
    \/ RunTaskWithin(Cardinality(DOMAIN schedules) + MaxBatches)

SpecRegen == InitRegen /\ [][NextRegen]_vars

----------------------------------------------------------------------------
(* Generation by the weekly task when a Timeslot.objects.create raises:    *)
(* the task runs outside any transaction and catches the exception per team *)

FaultAfter == {1, 100, WeekHours - 1}   \* timeslots written before the failure

\* Schedule.objects.create, then generate_timeslots raising after k rows
CreateAndFail(db, t, ws, status, k) ==
    LET sid == db.nextId.schedule
        nid == db.nextId.timeslot
    IN  [db EXCEPT
           !.schedules = (sid :> [team |-> t, week_start_date |-> ws,
                                  week_end_date |-> ws + 6,
                                  status |-> status]) @@ @,
           !.timeslots = Restrict(CreateTimeslots(sid, ws, nid),
                                  nid..(nid + k - 1)) @@ @,
           !.nextId = [@ EXCEPT !.schedule = sid + 1,
                                !.timeslot = nid + k]]

\* the loop of generate_weekly_schedules with the failure in team ft
RECURSIVE WeeklyLoopExcept(_, _, _, _)
WeeklyLoopExcept(db, teams, ft, k) ==
    IF teams = {} THEN db
    ELSE LET t  == Min(teams)
             ws == MondayOf(Today) + DaysPerWeek
         IN  IF ScheduleFor(db, t, ws) # {} \/ MemberCount(t) < calculate_required_members
             THEN WeeklyLoopExcept(db, teams \ {t}, ft, k)
             ELSE IF t = ft
             THEN WeeklyLoopExcept(CreateAndFail(db, t, ws, "published", k),
                                   teams \ {t}, ft, k)
             ELSE WeeklyLoopExcept(CreateAndGenerate(db, t, ws, "published"),
                                   teams \ {t}, ft, k)

Complete(db) ==
    \A s \in DOMAIN db.schedules :
       Cardinality(SlotsOf(db.timeslots, s)) = WeekHours

\* the beat task, one Timeslot.objects.create of team ft raising
GenerateWeeklySchedulesWithFault(ft, k) ==
    /\ Complete(DB)
    /\ ScheduleFor(DB, ft, MondayOf(Today) + DaysPerWeek) = {}
    /\ MemberCount(ft) >= calculate_required_members
    /\ BatchesUsed(DB) + 1 < MaxBatches
    /\ SetDB(WeeklyLoopExcept(DB, TeamIds, ft, k))
    /\ resp' = [op |-> "generate_weekly_schedules", ok |-> TRUE, error |-> "none",
                failed_teams |-> failed_teams(DB), raised |-> {ft}]
    /\ UNCHANGED <<weekly_hours, members, now, queue, workers>>

NextGenFault ==
    \/ \E t \in TeamIds, w \in WeekStartInputs : GenerateSchedule(t, w)
    \/ GenerateWeeklySchedules
    \/ \E ft \in TeamIds, k \in FaultAfter : GenerateWeeklySchedulesWithFault(ft, k)

SpecGenFault == InitGen /\ [][NextGenFault]_vars

----------------------------------------------------------------------------
(* Publication of the schedules of InitRegen while members of team 1 are   *)
(* deactivated and reactivated                                             *)

PublishIdInputs == {1, 3, 4}         \* schedule_id of a request; 4 does not exist

\* the view publishing every draft, without the validation
publish_schedule_unvalidated(schedule_id) ==
    /\ IF schedule_id \notin DOMAIN schedules
       THEN /\ resp' = [op |-> "publish_schedule", ok |-> FALSE,
                        error |-> "not_found"]
            /\ UNCHANGED <<schedules, validations>>
       ELSE IF schedules[schedule_id].status # "draft"
       THEN /\ resp' = [op |-> "publish_schedule", ok |-> FALSE,
                        error |-> "not_draft"]
            /\ UNCHANGED <<schedules, validations>>
       ELSE /\ schedules' = [schedules EXCEPT ![schedule_id].status = "published"]
            /\ resp' = [op |-> "publish_schedule", ok |-> TRUE, error |-> "none"]
            /\ UNCHANGED validations
    /\ UNCHANGED <<weekly_hours, members, timeslots, swaps, nextId, now, queue,
                   workers>>

\* views.publish_schedule
publish_schedule(schedule_id) ==
    /\ IF schedule_id \notin DOMAIN schedules
       THEN /\ resp' = [op |-> "publish_schedule", ok |-> FALSE,
                        error |-> "not_found"]
            /\ UNCHANGED <<schedules, validations>>
       ELSE IF schedules[schedule_id].status # "draft"
       THEN /\ resp' = [op |-> "publish_schedule", ok |-> FALSE,
                        error |-> "not_draft"]
            /\ UNCHANGED <<schedules, validations>>
       ELSE \E validation \in
                 {validate_schedule(timeslots, schedule_id,
                                    schedules[schedule_id].team,
                                    schedules[schedule_id].week_start_date)} :
              /\ validations' = (schedule_id :> validation) @@ validations
              /\ IF ~validation.is_valid
                 THEN /\ resp' = [op |-> "publish_schedule", ok |-> FALSE,
                                  error |-> "validation_failed",
                                  validation_errors |->
                                      validation.validation_errors]
                      /\ UNCHANGED schedules
                 ELSE /\ schedules' = [schedules EXCEPT
                                         ![schedule_id].status = "published"]
                      /\ resp' = [op |-> "publish_schedule", ok |-> TRUE,
                                  error |-> "none"]
    /\ UNCHANGED <<weekly_hours, members, timeslots, swaps, nextId, now, queue,
                   workers>>

\* tasks.auto_publish_valid_schedules: the drafts of the current week whose
\* stored validation is valid
auto_publish_valid_schedules ==
    LET valid_schedules ==
          {s \in DOMAIN schedules :
             /\ schedules[s].week_start_date = MondayOf(Today)
             /\ schedules[s].status = "draft"
             /\ s \in DOMAIN validations
             /\ validations[s].is_valid}
    IN  /\ schedules' = [s \in DOMAIN schedules |->
                           IF s \in valid_schedules
                           THEN [schedules[s] EXCEPT !.status = "published"]
                           ELSE schedules[s]]
        /\ resp' = [op |-> "auto_publish_valid_schedules", ok |-> TRUE,
                    error |-> "none", published_schedules |-> valid_schedules]
        /\ UNCHANGED <<weekly_hours, members, timeslots, validations, swaps,
                       nextId, now, queue, workers>>

NextPublish ==
    \/ \E schedule_id \in PublishIdInputs : publish_schedule(schedule_id)
    \/ auto_publish_valid_schedules
    \/ \E m \in ChurnUsers, b \in BOOLEAN : SetActive(1, m, b)

SpecPublish == InitRegen /\ [][NextPublish]_vars

----------------------------------------------------------------------------
(* Swap requests in a team that shrank to three members: the regenerated   *)
(* schedule of next week gives each of them 8 hours a day                  *)

\* hour 1 of the first day (member 2) and hours 0 and 1 of the second day
\* (members 5 and 2) of the regenerated schedule
CapSlots == {WeekHours + 2, WeekHours + HoursPerDay + 1, WeekHours + HoursPerDay + 2}
CapUsers == {2, 5}

\* the state after members 3 and 4 were removed and the regeneration ran; the
\* regeneration replaces every timeslot and the validation of the schedule
InitSwapCap ==
    /\ weekly_hours = <<>>
    /\ members = [t \in TeamIds |->
                    IF t = 1
                    THEN SelectSeq(InitialRows(MinTeamSize),
                                   LAMBDA r : r.member \notin LeavingUsers)
                    ELSE InitialRows(MinTeamSize)]
    /\ now = 0
    /\ \E db \in {regenerate_schedules_for_team(
                    CreateAndGenerate(EmptyDBValue, 1, DaysPerWeek, "published"),
                    1, NoTime)} :
           /\ schedules = db.schedules
           /\ timeslots = db.timeslots
           /\ validations = db.validations
           /\ swaps = db.swaps
           /\ nextId = db.nextId
    /\ queue = <<>>
    /\ workers = Idle
    /\ resp = NoResp

NextSwapCap ==
    \/ \E u \in CapUsers, rs, ps \in CapSlots : SwapRequestViewSet_create(u, rs, ps)
    \/ \E u \in CapUsers, r \in 1..MaxSwaps : accept_swap_request(u, r)
    \/ \E u \in CapUsers, r \in 1..MaxSwaps, x \in Reasons :
          reject_swap_request(u, r, x)

SpecSwapCap == InitSwapCap /\ [][NextSwapCap]_vars

----------------------------------------------------------------------------
(* Two accept handlers working on two requests that share a timeslot: the  *)
(* slot is the responder_slot of one request and the requester_slot of the *)
(* other, which the per-role pending checks of create allow                *)

\* hours 1, 2 and 3 of day 1 of week 0; they belong to members 4, 3 and 2
ShareSlots == {26, 27, 28}
\* request.user and the two slots of the create calls
ShareInputs == {<<4, 26, 27>>, <<3, 27, 28>>}
ShareResponders == {2, 3}

NextSwapShare ==
    \/ \E b \in ShareInputs : SwapRequestViewSet_create(b[1], b[2], b[3])
    \/ \E h \in HandlerIds, u \in ShareResponders, r \in 1..MaxSwaps :
          AcceptLoad(h, u, r)
    \/ \E h \in HandlerIds : AcceptWrite(h)

SpecSwapShare == InitSwapRace /\ [][NextSwapShare]_vars

----------------------------------------------------------------------------
(* The whole interface of SwapRequestViewSet.  It is a ModelViewSet, so    *)
(* besides create, accept and reject it serves PUT and PATCH on a request  *)
(* through SwapRequestSerializer, whose 'status' field is writable, and    *)
(* DELETE; get_queryset limits all three to the requester and the responder *)

\* values of 'status' sent in a PATCH, among SwapRequest.STATUS_CHOICES
StatusInputs == {"accepted", "expired"}

\* get_queryset of SwapRequestViewSet
InQueryset(user, r) ==
    /\ r \in DOMAIN swaps
    /\ (swaps[r].requester = user \/ swaps[r].responder = user)

\* SwapRequestViewSet.partial_update (UpdateModelMixin) with {"status": st}
SwapRequestViewSet_partial_update(user, r, st) ==
    IF InQueryset(user, r)
    THEN /\ swaps' = [swaps EXCEPT ![r].status = st]
         /\ resp' = SwapResp("partial_update", TRUE)
         /\ UNCHANGED <<weekly_hours, members, schedules, timeslots, validations,
                        nextId, now, queue, workers>>
    ELSE Refuse("partial_update")

\* SwapRequestViewSet.destroy (DestroyModelMixin)
SwapRequestViewSet_destroy(user, r) ==
    IF InQueryset(user, r)
    THEN /\ swaps' = Restrict(swaps, DOMAIN swaps \ {r})
         /\ resp' = SwapResp("destroy", TRUE)
         /\ UNCHANGED <<weekly_hours, members, schedules, timeslots, validations,
                        nextId, now, queue, workers>>
    ELSE Refuse("destroy")

NextSwapApi ==
    \/ NextSwap
    \/ \E u \in ActingUsers, r \in 1..MaxSwaps, st \in StatusInputs :
          SwapRequestViewSet_partial_update(u, r, st)
    \/ \E u \in ActingUsers, r \in 1..MaxSwaps : SwapRequestViewSet_destroy(u, r)

SpecSwapApi == InitSwap /\ [][NextSwapApi]_vars

----------------------------------------------------------------------------
(* Claims *)

\* C1: for a team with at least 5 active members, every non-break timeslot of
\* a generated schedule has an assigned member and no member has more than 8
\* assigned hours on any calendar date.
C1_FullCoverageWithinDailyCap ==
    \A s \in DOMAIN schedules :
        MemberCount(schedules[s].team) >= MinTeamSize =>
            /\ \A i \in SlotsOf(timeslots, s) :
                  ~timeslots[i].is_break => timeslots[i].assigned_member # NoMember
            /\ \A m \in Users :
                  \A d \in {DateOf(timeslots[i].start_datetime) : i \in SlotsOf(timeslots, s)} :
                     DailyHours(timeslots, s, m, d) <= MAX_DAILY_HOURS

C1_Witness ==
    \E s \in DOMAIN schedules :
        /\ schedules[s].team = 1
        /\ MemberCount(1) > MinTeamSize
        /\ Cardinality(SlotsOf(timeslots, s)) = WeekHours
        /\ \E i \in SlotsOf(timeslots, s) : timeslots[i].assigned_member = MinTeamSize + 1

\* C2: after interleaved regenerations of one team and week have all
\* finished, no schedule holds two timeslots with the same range and every
\* schedule holds exactly 168 timeslots.
C2_NoDuplicatesAfterRegeneration ==
    AllFinished =>
        \A s \in DOMAIN schedules :
            /\ ~HasDuplicateRange(s)
            /\ Cardinality(SlotsOf(timeslots, s)) = WeekHours

\* C3: when the responder accepts a pending, still valid swap request, the
\* requester's slot goes to the responder, the responder's slot to the
\* requester, the request becomes 'processed' with processed_at set, and
\* every other timeslot and swap request is unchanged.
C3_AcceptExchangesSlots ==
    [][\A u \in ActingUsers, r \in 1..MaxSwaps :
         (/\ r \in DOMAIN swaps
          /\ swaps[r].responder = u
          /\ is_valid(r)
          /\ accept_swap_request(u, r))
         => /\ timeslots'[swaps[r].requester_slot].assigned_member = swaps[r].responder
            /\ timeslots'[swaps[r].responder_slot].assigned_member = swaps[r].requester
            /\ swaps'[r].status = "processed"
            /\ swaps'[r].processed_at = now
            /\ swaps'[r].processed_at # NoTime
            /\ DOMAIN timeslots' = DOMAIN timeslots
            /\ \A i \in DOMAIN timeslots :
                 i \notin {swaps[r].requester_slot, swaps[r].responder_slot}
                   => timeslots'[i] = timeslots[i]
            /\ DOMAIN swaps' = DOMAIN swaps
            /\ \A q \in DOMAIN swaps : q # r => swaps'[q] = swaps[q]]_vars

C3_Witness ==
    /\ resp = SwapResp("accept", TRUE)
    /\ \E r \in DOMAIN swaps :
         /\ swaps[r].status = "processed"
         /\ timeslots[swaps[r].requester_slot].assigned_member = swaps[r].responder
         /\ timeslots[swaps[r].responder_slot].assigned_member = swaps[r].requester
         /\ swaps[r].requester # swaps[r].responder

C5_ExchangeIsAtomic ==
    [][\A r \in DOMAIN swaps :
         (timeslots'[swaps[r].requester_slot] # timeslots[swaps[r].requester_slot])
           <=> (timeslots'[swaps[r].responder_slot]
                  # timeslots[swaps[r].responder_slot])]_vars

\* C6: when the accept and reject handlers of one request have both finished,
\* the request is not 'rejected' with its two slots exchanged, and a request
\* that was 'processed' is never overwritten.
C6_NoRejectedExchange ==
    [][/\ \A r \in DOMAIN swaps :
            swaps[r].status = "processed" => swaps'[r].status = "processed"
       /\ HandlersFinished' =>
            \A r \in DOMAIN swaps' :
               ~(/\ swaps'[r].status = "rejected"
                 /\ timeslots'[swaps'[r].requester_slot].assigned_member
                      = swaps'[r].responder
                 /\ timeslots'[swaps'[r].responder_slot].assigned_member
                      = swaps'[r].requester)]_vars

\* C7: once a request is 'processed' or 'rejected', no later step changes its
\* row (status, rejection_reason, processed_at), and an accept or reject
\* addressed to it leaves the assignees of its two slots as they are.
Terminal(r) == swaps[r].status \in {"processed", "rejected"}

C7_TerminalIsImmutable ==
    [][\A r \in DOMAIN swaps :
         Terminal(r) =>
            /\ r \in DOMAIN swaps'
            /\ swaps'[r] = swaps[r]
            /\ \A u \in ActingUsers, x \in Reasons :
                 (accept_swap_request(u, r) \/ reject_swap_request(u, r, x))
                 => /\ resp'.ok = FALSE
                    /\ timeslots'[swaps[r].requester_slot]
                         = timeslots[swaps[r].requester_slot]
                    /\ timeslots'[swaps[r].responder_slot]
                         = timeslots[swaps[r].responder_slot]]_vars

C7_Witness ==
    /\ resp = SwapResp("reject", FALSE)
    /\ \E r \in DOMAIN swaps : DOMAIN swaps = {r} /\ swaps[r].status = "processed"

\* C8: every stored swap request had, when it was created, both slots in
\* schedules of the same team and the same week, the requester assigned to
\* requester_slot and the responder assigned to responder_slot.
C8_CreateChecksTeamWeekOwners ==
    [][\A r \in DOMAIN swaps' \ DOMAIN swaps :
         LET rs == timeslots[swaps'[r].requester_slot]
             ps == timeslots[swaps'[r].responder_slot]
         IN  /\ schedules[rs.schedule].team = schedules[ps.schedule].team
             /\ schedules[rs.schedule].week_start_date
                  = schedules[ps.schedule].week_start_date
             /\ rs.assigned_member = swaps'[r].requester
             /\ ps.assigned_member = swaps'[r].responder]_vars

\* C9: each timeslot is referenced by at most one pending swap request,
\* counting both roles.
PendingOn(i) ==
    {r \in DOMAIN swaps :
        /\ swaps[r].status = "pending"
        /\ i \in {swaps[r].requester_slot, swaps[r].responder_slot}}

C9_OnePendingRequestPerSlot ==
    \A i \in DOMAIN timeslots : Cardinality(PendingOn(i)) <= 1

\* C10: at most one swap request exists for an ordered (requester_slot,
\* responder_slot) pair, and a create for a pair that already has a request
\* is refused and leaves the stored requests unchanged.
C10_SlotPairUnique ==
    [][/\ \A q, r \in DOMAIN swaps' :
            (/\ swaps'[q].requester_slot = swaps'[r].requester_slot
             /\ swaps'[q].responder_slot = swaps'[r].responder_slot) => q = r
       /\ \A u \in ActingUsers, rs, ps \in SwapSlots :
            (/\ \E r \in DOMAIN swaps : /\ swaps[r].requester_slot = rs
                                        /\ swaps[r].responder_slot = ps
             /\ \/ SwapRequestViewSet_create(u, rs, ps)
                \/ \E b \in Bodies : b[2] = rs /\ b[3] = ps
                                     /\ create_swap_request(u, b[1], rs, ps))
            => resp'.ok = FALSE /\ swaps' = swaps]_vars

C10_Witness ==
    /\ resp = SwapResp("create", FALSE)
    /\ \E r \in DOMAIN swaps :
         /\ DOMAIN swaps = {r}
         /\ swaps[r].status = "rejected"
         /\ nextId.swap <= MaxSwaps


\* C11: generation for a team with fewer than 5 active members is refused
\* with the required and the actual count and creates no Schedule and no
\* Timeslot, through the generate_schedule endpoint and through the
\* generate_weekly_schedules task.
SchedulesOfTeam(sch, t) == {s \in DOMAIN sch : sch[s].team = t}

C11_SmallTeamIsRefused ==
    [][\A t \in TeamIds :
         MemberCount(t) < MinTeamSize =>
           /\ SchedulesOfTeam(schedules', t) = SchedulesOfTeam(schedules, t)
           /\ \A i \in DOMAIN timeslots' \ DOMAIN timeslots :
                schedules'[timeslots'[i].schedule].team # t
           /\ \A w \in WeekStartInputs :
                GenerateSchedule(t, w) =>
                  /\ resp'.ok = FALSE
                  /\ resp'.required_members = MinTeamSize
                  /\ resp'.current_members = MemberCount(t)
                  /\ UNCHANGED <<weekly_hours, schedules, timeslots, validations>>
           /\ GenerateWeeklySchedules =>
                [team |-> t, need |-> MinTeamSize, have |-> MemberCount(t)]
                   \in resp'.failed_teams]_vars

C11_Witness ==
    /\ MemberCount(1) = MinTeamSize - 1
    /\ resp.op = "generate_schedule"
    /\ ~resp.ok
    /\ resp.error = "insufficient"
    /\ SchedulesOfTeam(schedules, 1) = {}
    /\ SchedulesOfTeam(schedules, 2) # {}


\* C12: at most one Schedule exists per (team, week_start_date); a generation
\* asked for a (team, week) that already has a Schedule is rejected, and the
\* existing Schedule, its timeslots and its validation stay as they are.
C12_OneSchedulePerTeamWeek ==
    [][/\ \A a, b \in DOMAIN schedules' :
            (/\ schedules'[a].team = schedules'[b].team
             /\ schedules'[a].week_start_date = schedules'[b].week_start_date)
            => a = b
       /\ \A s \in DOMAIN schedules :
            /\ s \in DOMAIN schedules' /\ schedules'[s] = schedules[s]
            /\ SlotsOf(timeslots', s) = SlotsOf(timeslots, s)
            /\ \A i \in SlotsOf(timeslots, s) : timeslots'[i] = timeslots[i]
            /\ validations'[s] = validations[s]
       /\ \A t \in TeamIds, w \in WeekStartInputs :
            LET ws == IF w = NoTime THEN MondayOf(Today) ELSE w
            IN  (/\ \E s \in DOMAIN schedules :
                       schedules[s].team = t /\ schedules[s].week_start_date = ws
                 /\ MemberCount(t) >= MinTeamSize
                 /\ GenerateSchedule(t, w))
                => /\ resp'.ok = FALSE
                   /\ resp'.error = "exists"
                   /\ UNCHANGED <<weekly_hours, schedules, timeslots, validations, nextId>>]_vars

C12_Witness ==
    /\ resp.op = "generate_schedule"
    /\ resp.error = "exists"
    /\ \E s \in DOMAIN schedules :
         /\ schedules[s].team = 2
         /\ Cardinality(SlotsOf(timeslots, s)) = WeekHours
         /\ BatchesUsed(DB) < MaxBatches


\* C13: a generation called with a week_start_date that is not a Monday is
\* rejected before any mutation, so every stored Schedule starts on a Monday.
C13_WeekStartsOnMonday ==
    \A s \in DOMAIN schedules : Weekday(schedules[s].week_start_date) = 0


\* C14: for a team with at least 5 active members, generation followed by
\* validation stores has_sufficient_members = True, is_valid = True and no
\* error, and the assigned hours summed over all members are 168.
RECURSIVE HoursOfMembers(_, _, _)
HoursOfMembers(tab, sid, S) ==
    IF S = {} THEN 0
    ELSE LET m == CHOOSE x \in S : TRUE
         IN  WeeklyHours(tab, sid, m) + HoursOfMembers(tab, sid, S \ {m})

C15_FairShareOfHours ==
    \A s \in DOMAIN schedules :
        MemberCount(schedules[s].team) = MinTeamSize =>
           \A i \in 1..MinTeamSize :
               LET m == ActiveMembers(schedules[s].team)[i]
               IN  /\ WeeklyHours(timeslots, s, m) >= 33
                   /\ WeeklyHours(timeslots, s, m) <= MAX_WEEKLY_HOURS


\* C16: for every team size of 1 or more, also after the team shrank below 5
\* and its schedules were regenerated, a member is given a slot only while
\* the member's hours on that date stay within 8; a slot nobody can take is
\* left unassigned, never force-assigned.
C16_DailyCapNeverOverridden ==
    \A s \in DOMAIN schedules :
       \A m \in Users :
          \A d \in {DateOf(timeslots[i].start_datetime) : i \in SlotsOf(timeslots, s)} :
             DailyHours(timeslots, s, m, d) <= MAX_DAILY_HOURS


\* C17: for every team size of 1 or more, after generation or regeneration
\* no member has more than base_weekly_limit + 12 = 52 assigned hours in one
\* week's schedule.
C17_WeeklyHardCeiling ==
    \A s \in DOMAIN schedules :
       \A m \in Users : WeeklyHours(timeslots, s, m) <= MAX_WEEKLY_HOURS + 12


\* C18: in every generated schedule, two slots of one member that are not
\* back-to-back are separated by at least the team's min_break_hours.
C18_MinimumBreakBetweenShifts ==
    \A s \in DOMAIN schedules :
       \A i, j \in SlotsOf(timeslots, s) :
          (/\ timeslots[i].assigned_member # NoMember
           /\ timeslots[i].assigned_member = timeslots[j].assigned_member
           /\ timeslots[i].end_datetime < timeslots[j].start_datetime)
          => timeslots[j].start_datetime - timeslots[i].end_datetime
               >= min_break_hours


\* C19: validate_schedule stores is_valid = True exactly when no non-break
\* timeslot is unassigned, no active member has more than 8 hours on one
\* date, no active member's weekly hours exceed the applicable limit (the
\* adjusted limit unless the weekend override is set, the base limit + 8 in
\* any case, 40 without a weekly record) and the team has at least 5 active
\* members; has_sufficient_members is True exactly when it has at least 5.
RECURSIVE HoursOfSlots(_)
HoursOfSlots(S) ==
    IF S = {} THEN 0
    ELSE LET i == CHOOSE x \in S : TRUE
         IN  (timeslots[i].end_datetime - timeslots[i].start_datetime)
             + HoursOfSlots(S \ {i})

ActiveSet(t) ==
    {m \in Users : \E i \in 1..Len(members[t]) :
                      members[t][i].member = m /\ members[t][i].is_active}

WorkedSlots(s, m) ==
    {i \in DOMAIN timeslots : /\ timeslots[i].schedule = s
                              /\ timeslots[i].assigned_member = m
                              /\ ~timeslots[i].is_break}

OverWeeklyLimit(s, m) ==
    LET key == <<m, schedules[s].team, schedules[s].week_start_date>>
        h   == HoursOfSlots(WorkedSlots(s, m))
    IN  IF key \in DOMAIN weekly_hours
        THEN \/ /\ h > weekly_hours[key].adjusted_weekly_limit
                /\ ~weekly_hours[key].is_weekend_override
             \/ h > weekly_hours[key].base_weekly_limit + 8
        ELSE h > 40

OverDailyLimit(s, m) ==
    \E i \in WorkedSlots(s, m) :
       HoursOfSlots({j \in WorkedSlots(s, m) :
                       timeslots[j].start_datetime \div 24
                         = timeslots[i].start_datetime \div 24}) > 8

MembersAt(tab, sid, start) ==
    {tab[i].assigned_member :
       i \in {j \in SlotsOf(tab, sid) : tab[j].start_datetime = start}}

RegenerationStep ==
    /\ queue # <<>>
    /\ Head(queue).task = "regenerate"
    /\ queue' = Tail(queue)
    /\ members' = members

C22_NoPartialSchedule ==
    \A s \in DOMAIN schedules :
       Cardinality(SlotsOf(timeslots, s)) \notin 1..(WeekHours - 1)


\* C23: reject by the responder on a pending request sets its status to
\* 'rejected' with the reason given and changes no timeslot; accept or reject
\* by a user who is not the responder changes neither the requests nor the
\* timeslots.
C23_RejectAndForeignCallsFrame ==
    [][\A u \in ActingUsers, r \in DOMAIN swaps :
         /\ \A x \in Reasons :
               reject_swap_request(u, r, x) =>
                  /\ timeslots' = timeslots
                  /\ \A q \in DOMAIN swaps \ {r} : swaps'[q] = swaps[q]
                  /\ IF swaps[r].responder = u /\ swaps[r].status = "pending"
                     THEN /\ swaps'[r].status = "rejected"
                          /\ swaps'[r].rejection_reason = x
                          /\ swaps'[r].requester_slot = swaps[r].requester_slot
                          /\ swaps'[r].responder_slot = swaps[r].responder_slot
                     ELSE swaps'[r] = swaps[r]
         /\ (accept_swap_request(u, r) /\ swaps[r].responder # u) =>
               /\ timeslots' = timeslots
               /\ swaps' = swaps]_vars

\* a request was rejected with the reason given while every slot the
\* requests are about kept its member
C23_Witness ==
    /\ resp = SwapResp("reject", TRUE)
    /\ \E r \in DOMAIN swaps :
          /\ swaps[r].status = "rejected"
          /\ swaps[r].rejection_reason \in Reasons
          /\ swaps[r].requester # swaps[r].responder
    /\ timeslots[26].assigned_member = 4
    /\ timeslots[27].assigned_member = 3
    /\ timeslots[1 * WeekHours + 28].assigned_member = 2


\* C24: generate_timeslots produces exactly 168 timeslots of one hour each,
\* none a break, in order and contiguous (each starts where the previous one
\* ends), the first starting at 00:00 of week_start_date and the last ending
\* at 00:00 of week_start_date + 7 days.
C24_HourlySlotsCoverTheWeek ==
    \A s \in DOMAIN schedules :
       LET slots == SlotsOf(timeslots, s)
           first == schedules[s].week_start_date * 24
       IN  /\ Cardinality(slots) = 168
           /\ \A i \in slots :
                 /\ timeslots[i].end_datetime = timeslots[i].start_datetime + 1
                 /\ ~timeslots[i].is_break
                 /\ timeslots[i].start_datetime >= first
                 /\ timeslots[i].end_datetime <= first + 7 * 24
                 /\ (i + 1 \in slots =>
                        timeslots[i + 1].start_datetime = timeslots[i].end_datetime)
                 /\ (i + 1 \notin slots =>
                        timeslots[i].end_datetime = first + 7 * 24)
                 /\ (i - 1 \notin slots => timeslots[i].start_datetime = first)
           /\ \A i, j \in slots :
                 i < j => timeslots[i].end_datetime <= timeslots[j].start_datetime

\* two schedules were generated one after the other, one of them for a week
\* that starts on day 7
C24_Witness ==
    /\ Cardinality(DOMAIN schedules) = 2
    /\ \E s \in DOMAIN schedules :
          /\ schedules[s].week_start_date = DaysPerWeek
          /\ \E i \in SlotsOf(timeslots, s) :
                /\ i > WeekHours
                /\ timeslots[i].end_datetime = 2 * WeekHours


\* C25: publish_schedule moves a schedule from 'draft' to 'published' only
\* when a validation run at that moment reports is_valid = True; called on a
\* schedule that is not a draft, or on a draft whose validation fails, it
\* leaves the status unchanged.
PassesValidation(s) ==
    LET active == ActiveSet(schedules[s].team)
    IN  /\ \A i \in DOMAIN timeslots :
              (timeslots[i].schedule = s /\ ~timeslots[i].is_break)
              => timeslots[i].assigned_member # NoMember
        /\ \A m \in active : ~OverDailyLimit(s, m) /\ ~OverWeeklyLimit(s, m)
        /\ Cardinality(active) >= 5

C25_PublishOnlyValidDrafts ==
    [][\A s \in DOMAIN schedules :
         publish_schedule(s) =>
            /\ \A q \in DOMAIN schedules \ {s} : schedules'[q] = schedules[q]
            /\ IF schedules[s].status = "draft" /\ PassesValidation(s)
               THEN schedules'[s].status = "published"
               ELSE schedules'[s].status = schedules[s].status]_vars

\* a publish request was refused for a draft that was valid when generated
\* and is not any more, a member having been deactivated since
C25_Witness ==
    /\ resp.op = "publish_schedule"
    /\ resp.error = "validation_failed"
    /\ \E s \in DOMAIN schedules :
          /\ schedules[s].status = "draft"
          /\ ~validations[s].is_valid
          /\ ~PassesValidation(s)


\* C26: once a member was removed from a team and the regeneration task the
\* removal queued has run, no timeslot of that team that starts after the
\* removal is assigned to the removed member.
C26_RemovedMemberHoldsNoFutureSlot ==
    queue = <<>> =>
       \A t \in TeamIds, m \in Users :
          ~HasRow(t, m) =>
             \A i \in DOMAIN timeslots :
                (/\ schedules[timeslots[i].schedule].team = t
                 /\ timeslots[i].start_datetime > now)
                => timeslots[i].assigned_member # m


\* C27: from a generated schedule in which no member exceeds 8 hours on any
\* date, after any sequence of created and accepted swap requests every
\* member still has at most 8 assigned hours on every date.
C27_SwapsKeepDailyCap ==
    \A s \in DOMAIN schedules :
       \A m \in ActiveSet(schedules[s].team) : ~OverDailyLimit(s, m)


\* C28: when the accepts of two pending requests that share a timeslot
\* interleave, the final assignment is a permutation of the initial one: the
\* three slots of the two requests still belong to three different members.
C28_InterleavedAcceptsPermute ==
    HandlersFinished =>
       {timeslots[i].assigned_member : i \in ShareSlots} = {2, 3, 4}


\* C29: in a sequential history, an accept of a pending request one of whose
\* slots is no longer assigned to the party recorded on the request is
\* refused, changes no slot and leaves the request pending.
Stale(r) ==
    \/ timeslots[swaps[r].requester_slot].assigned_member # swaps[r].requester
    \/ timeslots[swaps[r].responder_slot].assigned_member # swaps[r].responder

C29_StaleAcceptRefused ==
    [][\A r \in DOMAIN swaps :
         (swaps[r].status = "pending" /\ Stale(r)) =>
            /\ swaps'[r].status # "processed"
            /\ \A u \in ActingUsers :
                  accept_swap_request(u, r) =>
                     /\ resp'.ok = FALSE
                     /\ timeslots' = timeslots
                     /\ swaps' = swaps]_vars

\* an accept was refused before the deadline for a request that is still
\* pending: another request on the same slots was processed in the meantime
C29_Witness ==
    /\ resp = SwapResp("accept", FALSE)
    /\ \E r, q \in DOMAIN swaps :
          /\ swaps[r].status = "pending"
          /\ now < swaps[r].deadline
          /\ swaps[r].responder \in ActingUsers
          /\ Stale(r)
          /\ swaps[q].status = "processed"
          /\ swaps[q].responder_slot = swaps[r].requester_slot


\* C30: in every reachable state the status of a swap request is 'pending',
\* 'processed' or 'rejected'; no operation assigns 'accepted' or 'expired'.
C30_ThreeStatusValues ==
    \A r \in DOMAIN swaps : swaps[r].status \in {"pending", "processed", "rejected"}

====
